---- MODULE Spec2Model ----
(***************************************************************************)
(* Model of the two image nodes of MuffinsVRFixes:                         *)
(*   MuffinsOffsetNode.offset   (src/muffins_offset_node.py)               *)
(*   VR180StereoTools.apply     (src/vr180_stereo_tools.py)                *)
(*                                                                         *)
(* A tensor [B,H,W,C] is a record [B, H, W, C, px] whose px maps every     *)
(* 0-based index <<b, r, c, ch>> to a sample.  Samples are exact rationals *)
(* written as integers in units of 1/One (One is the sample 1.0), so the   *)
(* arithmetic of the seam blend is exact; floating-point rounding of the   *)
(* blend and non-finite samples are outside the model.  A float argument   *)
(* x_offset / y_offset is written in halves (x_offset = 3 is 1.5).         *)
(***************************************************************************)
EXTENDS Integers, Sequences, FiniteSets, TLC

VARIABLES
    pc,                 \* position of the calling sequence
    image, units, x_offset, y_offset, auto_half_width, auto_half_height,
    edge_mode, fill_rgb,            \* arguments of MuffinsOffsetNode.offset
    off_ret, off_back,              \* result of offset, and of the call back
    images, mode, source_half, output_layout, even_width_handling,
    seam_feather,                   \* arguments of VR180StereoTools.apply
    st_ret, st_other                \* result of apply, and with the other layout

offset_args == <<image, units, x_offset, y_offset, auto_half_width,
                 auto_half_height, edge_mode, fill_rgb>>
stereo_args == <<images, mode, source_half, output_layout, even_width_handling,
                 seam_feather>>
vars == <<pc, offset_args, off_ret, off_back, stereo_args, st_ret, st_other>>

----------------------------------------------------------------------------
(* Bounds of the explored inputs *)
MaxB == 1
MaxH == 3
MaxW == 4
MaxSW == 4
MaxFeather == 2

(* IMAGE is [B,H,W,C] with C = 3 *)
Channels == 3

RECURSIVE Gcd(_, _)
Gcd(a, b) == IF b = 0 THEN a ELSE Gcd(b, a % b)

RECURSIVE LcmUpTo(_)
LcmUpTo(n) == IF n <= 1 THEN 1 ELSE (n * LcmUpTo(n - 1)) \div Gcd(n, LcmUpTo(n - 1))

(* Half of the sample 1.0: every drawn sample is a multiple of it, so that *)
(* a blend with ramp i/(f-1), f <= MaxFeather, is again an integer.        *)
Half == LcmUpTo(MaxFeather)
One == 2 * Half

----------------------------------------------------------------------------
(* Tensors *)

Idx(B, H, W, C) == (0 .. B - 1) \X (0 .. H - 1) \X (0 .. W - 1) \X (0 .. C - 1)

NoTensor == [B |-> 0, H |-> 0, W |-> 0, C |-> 0, px |-> [i \in Idx(0, 0, 0, 0) |-> 0]]

Min(a, b) == IF a <= b THEN a ELSE b

(* Faulty variant: a shift that drops what leaves the frame *)
TorchRollLossy(t, sy, sx) ==
    [t EXCEPT !.px = [i \in DOMAIN t.px |->
        IF /\ i[2] - sy >= 0 /\ i[2] - sy < t.H
           /\ i[3] - sx >= 0 /\ i[3] - sx < t.W
        THEN t.px[<<i[1], i[2] - sy, i[3] - sx, i[4]>>]
        ELSE 0]]

(* torch.roll(t, shifts=(sy, sx), dims=(1, 2)): element (r, c) moves to    *)
(* ((r + sy) mod H, (c + sx) mod W), jointly on both axes.                 *)
TorchRoll(t, sy, sx) ==
    [t EXCEPT !.px = [i \in DOMAIN t.px |->
        t.px[<<i[1], (i[2] - sy) % t.H, (i[3] - sx) % t.W, i[4]>>]]]

(* fill.expand(b, h, w, 3).clone(), and torch.zeros((b, h, w, 3)) as the   *)
(* same canvas with fill = <<0, 0, 0>>                                     *)
Canvas(b, h, w, fill) ==
    [B |-> b, H |-> h, W |-> w, C |-> Channels,
     px |-> [i \in Idx(b, h, w, Channels) |-> fill[i[4] + 1]]]

----------------------------------------------------------------------------
(* MuffinsOffsetNode.offset *)

(* Python's round(n / d) for d > 0: to the nearest integer, ties to even *)
Round(n, d) ==
    LET q == n \div d
        r == n % d
    IN  IF 2 * r < d THEN q
        ELSE IF 2 * r > d THEN q + 1
        ELSE IF q % 2 = 0 THEN q ELSE q + 1

(* "Determine offsets in pixels": off2 is the float argument in halves *)
RawPx(auto_half, u, off2, dim) ==
    IF auto_half THEN dim \div 2
    ELSE IF u = "percent" THEN Round(off2 * dim, 200)
    ELSE Round(off2, 2)

(* Faulty variants: no reduction at all, and the tie dim/2 sent negative *)
NormalizeNoMod(px, dim) == px

NormalizeTieNegative(px, dim) ==
    IF dim # 0
    THEN LET m == px % dim IN IF m >= dim \div 2 THEN m - dim ELSE m
    ELSE px

(* "Normalize": px % dim, then px - dim when px > dim // 2 *)
Normalize(px, dim) ==
    IF dim # 0
    THEN LET m == px % dim IN IF m > dim \div 2 THEN m - dim ELSE m
    ELSE px

(* Source and destination rectangles of the paste, one axis *)
SrcStart(p) == IF p >= 0 THEN 0 ELSE -p
DstStart(p) == IF p >= 0 THEN p ELSE 0
CopyLen(p, dim) == IF p >= 0 THEN dim - p ELSE dim + p

(* Faulty variant: the rectangle is filled from the same position *)
PasteUnshifted(out, img, y_px, x_px) ==
    [out EXCEPT !.px = [i \in DOMAIN out.px |->
        IF /\ i[2] >= DstStart(y_px) /\ i[2] < DstStart(y_px) + CopyLen(y_px, img.H)
           /\ i[3] >= DstStart(x_px) /\ i[3] < DstStart(x_px) + CopyLen(x_px, img.W)
        THEN img.px[i]
        ELSE out.px[i]]]

(* out[:, dst_y0:dst_y0+hc, dst_x0:dst_x0+wc, :] = image[:, src_y0:.., src_x0:.., :] *)
Paste(out, img, y_px, x_px) ==
    [out EXCEPT !.px = [i \in DOMAIN out.px |->
        IF /\ i[2] >= DstStart(y_px) /\ i[2] < DstStart(y_px) + CopyLen(y_px, img.H)
           /\ i[3] >= DstStart(x_px) /\ i[3] < DstStart(x_px) + CopyLen(x_px, img.W)
        THEN img.px[<<i[1], i[2] - DstStart(y_px) + SrcStart(y_px),
                            i[3] - DstStart(x_px) + SrcStart(x_px), i[4]>>]
        ELSE out.px[i]]]

(* The whole call.  The result records, beside the returned tensor, the    *)
(* raw and the resolved offsets and the return statement that was taken.   *)
OffsetFn(img, u, xo, yo, ahw, ahh, em, fill) ==
    LET raw_x == RawPx(ahw, u, xo, img.W)
        raw_y == RawPx(ahh, u, yo, img.H)
        x_px == Normalize(raw_x, img.W)
        y_px == Normalize(raw_y, img.H)
        res(st, br, o) == [status |-> st, branch |-> br, raw_x |-> raw_x,
                           raw_y |-> raw_y, x_px |-> x_px, y_px |-> y_px, out |-> o]
        canvas == Canvas(img.B, img.H, img.W,
                         IF em = "fill_color" THEN fill ELSE <<0, 0, 0>>)
    IN  IF img.C # Channels THEN res("ValueError", "raise", NoTensor)
        ELSE IF x_px = 0 /\ y_px = 0 THEN res("ok", "identity", img)
        ELSE IF em = "wrap" THEN res("ok", "wrap", TorchRoll(img, y_px, x_px))
        ELSE IF CopyLen(x_px, img.W) <= 0 \/ CopyLen(y_px, img.H) <= 0
             THEN res("ok", "guard", canvas)
        ELSE res("ok", "paste", Paste(canvas, img, y_px, x_px))

----------------------------------------------------------------------------
(* Inputs of the offset node *)

(* An image whose samples are pairwise different, and different from every *)
(* fill colour, so that any misplaced sample shows.                        *)
TaggedImage(b, h, w) ==
    [B |-> b, H |-> h, W |-> w, C |-> Channels,
     px |-> [i \in Idx(b, h, w, Channels) |->
                One + 1 + i[4] + Channels * (i[3] + w * (i[2] + h * i[1]))]]

(* x_offset / y_offset in halves: -50, -3, -1, -0.5, 0, 1, 1.5, 2, 11, 25, 150 *)
OffsetInputs == {-100, -6, -2, -1, 0, 2, 3, 4, 22, 50, 300}

FillColours == {<<One, Half, 0>>}

Units == {"pixels", "percent"}
EdgeModes == {"wrap", "fill_color", "transparent_black"}

NoRet == [status |-> "none"]

StereoIdle ==
    /\ images = NoTensor /\ mode = "none" /\ source_half = "none"
    /\ output_layout = "none" /\ even_width_handling = "none" /\ seam_feather = 0
    /\ st_ret = NoRet /\ st_other = NoRet

InitOffset ==
    /\ pc = "offset"
    /\ \E b \in 1 .. MaxB, h \in 1 .. MaxH, w \in 1 .. MaxW :
          image = TaggedImage(b, h, w)
    /\ units \in Units
    /\ x_offset \in OffsetInputs
    /\ y_offset \in OffsetInputs
    /\ auto_half_width \in BOOLEAN
    /\ auto_half_height \in BOOLEAN
    /\ edge_mode \in EdgeModes
    /\ fill_rgb \in FillColours
    /\ off_ret = NoRet /\ off_back = NoRet
    /\ StereoIdle

(* offset(image, units, x_offset, y_offset, ...) *)
Offset ==
    /\ pc = "offset"
    /\ off_ret' = OffsetFn(image, units, x_offset, y_offset, auto_half_width,
                           auto_half_height, edge_mode, fill_rgb)
    /\ pc' = "offset_done"
    /\ UNCHANGED <<offset_args, off_back, stereo_args, st_ret, st_other>>

(* offset(result, units, -x_offset, -y_offset, ...) on the returned image *)
OffsetBack ==
    /\ pc = "offset_done"
    /\ off_ret.status = "ok"
    /\ off_back' = OffsetFn(off_ret.out, units, -x_offset, -y_offset,
                            auto_half_width, auto_half_height, edge_mode, fill_rgb)
    /\ pc' = "offset_back"
    /\ UNCHANGED <<offset_args, off_ret, stereo_args, st_ret, st_other>>

NextOffset == Offset \/ OffsetBack

SpecOffset == InitOffset /\ [][NextOffset]_vars

----------------------------------------------------------------------------
(* VR180StereoTools *)

(* t[:, :, lo:hi, :] for 0 <= lo <= hi <= t.W *)
SliceW(t, lo, hi) ==
    [B |-> t.B, H |-> t.H, W |-> hi - lo, C |-> t.C,
     px |-> [i \in Idx(t.B, t.H, hi - lo, t.C) |->
                t.px[<<i[1], i[2], i[3] + lo, i[4]>>]]]

(* torch.cat([a, b], dim=2) *)
CatW(a, b) ==
    [B |-> a.B, H |-> a.H, W |-> a.W + b.W, C |-> a.C,
     px |-> [i \in Idx(a.B, a.H, a.W + b.W, a.C) |->
                IF i[3] < a.W THEN a.px[i]
                ELSE b.px[<<i[1], i[2], i[3] - a.W, i[4]>>]]]

(* Faulty variant: only the upper bound is applied *)
ClampUpperOnly(t) ==
    [t EXCEPT !.px = [i \in DOMAIN t.px |-> IF t.px[i] > One THEN One ELSE t.px[i]]]

(* torch.clamp(t, 0.0, 1.0) *)
Clamp(t) ==
    [t EXCEPT !.px = [i \in DOMAIN t.px |->
        IF t.px[i] < 0 THEN 0 ELSE IF t.px[i] > One THEN One ELSE t.px[i]]]

(* Faulty variant: an odd width is never cropped *)
EnsureEvenWidthNever(t, ewh) == t

(* _ensure_even_width: drop the last column of an odd width unless "skip" *)
EnsureEvenWidth(t, ewh) ==
    IF ewh = "skip" THEN t
    ELSE IF t.W % 2 # 0 THEN SliceW(t, 0, t.W - 1)
    ELSE t

(* blended = left_band * (1 - ramp) + right_band * ramp at band column k,  *)
(* ramp = linspace(0, 1, steps=f): k/(f-1), and the single value 0 for f=1 *)
Blend(l, r, k, f) ==
    LET den == IF f > 1 THEN f - 1 ELSE 1
    IN  (l * (den - k) + r * k) \div den

(* Faulty variant: only the left band receives the blend *)
FeatherBandsLeftOnly(out, f, seam) ==
    [out EXCEPT !.px = [i \in DOMAIN out.px |->
        IF i[3] >= seam - f /\ i[3] < seam
        THEN Blend(out.px[i], out.px[<<i[1], i[2], i[3] + f, i[4]>>],
                   i[3] - (seam - f), f)
        ELSE out.px[i]]]

(* The two bands of f columns on each side of the seam, both overwritten   *)
(* by the one blended band computed from the tensor as it was              *)
FeatherBands(out, f, seam) ==
    LET seam_l_start == seam - f
        seam_r_start == seam
        blended(b, r, k, ch) ==
            Blend(out.px[<<b, r, seam_l_start + k, ch>>],
                  out.px[<<b, r, seam_r_start + k, ch>>], k, f)
    IN  [out EXCEPT !.px = [i \in DOMAIN out.px |->
            IF i[3] >= seam_l_start /\ i[3] < seam
            THEN blended(i[1], i[2], i[3] - seam_l_start, i[4])
            ELSE IF i[3] >= seam_r_start /\ i[3] < seam + f
            THEN blended(i[1], i[2], i[3] - seam_r_start, i[4])
            ELSE out.px[i]]]

(* Faulty variant: the seam taken at the wrong column, the bands ending at *)
(* the right edge                                                          *)
SeamFeatherMisplaced(out, feather, half_width) ==
    IF feather <= 0 THEN out
    ELSE FeatherBands(out, Min(feather, half_width),
                      out.W - Min(feather, half_width))

(* _seam_feather: no-op for seam_feather <= 0, f = min(seam_feather, half) *)
SeamFeather(out, feather, half_width) ==
    IF feather <= 0 THEN out
    ELSE FeatherBands(out, Min(feather, half_width), half_width)

(* Faulty variant: source_half is ignored *)
BuildStereoLeftOnly(left, right, sh, ol) == CatW(left, left)

(* Faulty variant: parallel lays out the true pair [L|R] of the input *)
PairOrderTrueLR(src, other, left, right, sh, ol) ==
    IF ol = "parallel" THEN CatW(left, right) ELSE CatW(src, other)

(* the order of the pair: [src|other] or [other|src] for parallel, and     *)
(* [src|other] for cross_eyed                                              *)
PairOrder(src, other, left, right, sh, ol) ==
    IF ol = "parallel"
    THEN IF sh = "left" THEN CatW(src, other) ELSE CatW(other, src)
    ELSE CatW(src, other)

(* "Build stereo output" of sbs_copy_half_to_stereo: src is the chosen     *)
(* half, other its clone                                                   *)
BuildStereo(left, right, sh, ol) ==
    LET src == IF sh = "left" THEN left ELSE right
        other == src
    IN  PairOrder(src, other, left, right, sh, ol)

(* mono_to_stereo_copy: other = mono.clone(), the same order for both layouts *)
BuildMono(mono, ol) ==
    LET other == mono
    IN  IF ol = "parallel" THEN CatW(mono, other) ELSE CatW(mono, other)

(* apply, as a function of its arguments; a raise is a status other than  *)
(* "ok" with no tensor                                                     *)
ApplyFn(imgs, m, sh, ol, ewh, feather) ==
    LET t == EnsureEvenWidth(imgs, ewh)
        W == t.W
        half == W \div 2
        left == SliceW(t, 0, half)
        right == SliceW(t, half, W)
        ok(o) == [status |-> "ok", out |-> o]
        err(e) == [status |-> e, out |-> NoTensor]
    IN  IF m = "even_crop_only" THEN ok(Clamp(t))
        ELSE IF m = "sbs_extract_half"
        THEN IF W % 2 # 0 THEN err("odd_width")
             ELSE ok(Clamp(IF sh = "left" THEN left ELSE right))
        ELSE IF m = "sbs_copy_half_to_stereo"
        THEN IF W % 2 # 0 THEN err("odd_width")
             ELSE ok(Clamp(SeamFeather(BuildStereo(left, right, sh, ol), feather, half)))
        ELSE IF m = "mono_to_stereo_copy"
        THEN ok(Clamp(SeamFeather(BuildMono(t, ol), feather, t.W)))
        ELSE err("unknown_mode")

----------------------------------------------------------------------------
(* Inputs of the stereo node *)

(* Samples below 0, inside [0,1] and above 1: -0.5, 0.5, 2.0 *)
PixVals == <<-Half, Half, 2 * One>>

(* A batch whose columns take every combination of PixVals (cols), varied  *)
(* from one batch entry, row and channel to the next                      *)
ColumnImage(b, h, w, cols) ==
    [B |-> b, H |-> h, W |-> w, C |-> Channels,
     px |-> [i \in Idx(b, h, w, Channels) |->
                PixVals[((cols[i[3]] + i[1] + i[2] + i[4]) % Len(PixVals)) + 1]]]

(* Heights of the batches given to apply, which never indexes the rows *)
StereoHeights == {2}

Modes == {"sbs_extract_half", "sbs_copy_half_to_stereo", "mono_to_stereo_copy",
          "even_crop_only", "no_such_mode"}
Halves == {"left", "right"}
Layouts == {"cross_eyed", "parallel"}
EvenWidthHandlings == {"auto_crop_if_odd", "skip"}

OtherLayout(ol) == IF ol = "parallel" THEN "cross_eyed" ELSE "parallel"

OffsetIdle ==
    /\ image = NoTensor /\ units = "none" /\ x_offset = 0 /\ y_offset = 0
    /\ auto_half_width = FALSE /\ auto_half_height = FALSE
    /\ edge_mode = "none" /\ fill_rgb = <<0, 0, 0>>
    /\ off_ret = NoRet /\ off_back = NoRet

InitStereo ==
    /\ pc = "apply"
    /\ \E b \in 1 .. MaxB, h \in StereoHeights, w \in 1 .. MaxSW :
          \E cols \in [0 .. w - 1 -> 0 .. Len(PixVals) - 1] :
              images = ColumnImage(b, h, w, cols)
    /\ mode \in Modes
    /\ source_half \in Halves
    /\ output_layout \in Layouts
    /\ even_width_handling \in EvenWidthHandlings
    /\ seam_feather \in 0 .. MaxFeather
    /\ st_ret = NoRet /\ st_other = NoRet
    /\ OffsetIdle

(* apply(images, mode, source_half, output_layout, even_width_handling, seam_feather) *)
Apply ==
    /\ pc = "apply"
    /\ st_ret' = ApplyFn(images, mode, source_half, output_layout,
                         even_width_handling, seam_feather)
    /\ pc' = "apply_done"
    /\ UNCHANGED <<offset_args, off_ret, off_back, stereo_args, st_other>>

(* the same call with only output_layout changed *)
ApplyOtherLayout ==
    /\ pc = "apply_done"
    /\ st_other' = ApplyFn(images, mode, source_half, OtherLayout(output_layout),
                           even_width_handling, seam_feather)
    /\ pc' = "apply_other"
    /\ UNCHANGED <<offset_args, off_ret, off_back, stereo_args, st_ret>>

NextStereo == Apply \/ ApplyOtherLayout

SpecStereo == InitStereo /\ [][NextStereo]_vars

----------------------------------------------------------------------------
(* Properties of MuffinsOffsetNode.offset, under SpecOffset *)

Abs(n) == IF n < 0 THEN -n ELSE n

OffsetReturned == pc \in {"offset_done", "offset_back"}

(* The fill of the non-wrap modes, read from the arguments *)
FillOf(ch) == IF edge_mode = "fill_color" THEN fill_rgb[ch + 1] ELSE 0

(* integer pixel offsets (x, y) with |x| < W/2 and |y| < H/2, units=pixels, *)
(* no auto_half flag, edge_mode=wrap                                       *)
RoundTripCase ==
    /\ edge_mode = "wrap" /\ units = "pixels"
    /\ ~auto_half_width /\ ~auto_half_height
    /\ x_offset % 2 = 0 /\ y_offset % 2 = 0
    /\ Abs(x_offset) < image.W /\ Abs(y_offset) < image.H

(* C1: in wrap mode, offset by integer pixels (x, y) with |x| < W/2 and    *)
(* |y| < H/2 followed by offset by (-x, -y) on the result returns a batch  *)
(* equal to the original at every pixel.                                   *)
C1_WrapRoundTrip ==
    (pc = "offset_back" /\ RoundTripCase) =>
        /\ off_back.status = "ok"
        /\ off_back.out = image

C1_Witness ==
    /\ pc = "offset_back" /\ RoundTripCase
    /\ x_offset # 0 /\ y_offset # 0
    /\ off_ret.branch = "wrap" /\ off_back.branch = "wrap"
    /\ off_ret.out # image
    /\ off_back.out = image

NormalizedAxis(p, raw, dim) ==
    /\ 2 * p > -dim
    /\ 2 * p <= dim
    /\ (p - raw) % dim = 0
    /\ (dim % 2 = 0 /\ raw = dim \div 2) => p = dim \div 2

(* C2: for every dimension dim >= 1 and every raw integer offset r, the    *)
(* resolved offset p satisfies -dim/2 < p <= dim/2 and p = r modulo dim;   *)
(* for even dim a raw offset of exactly dim/2 resolves to +dim/2.          *)
C2_Normalized ==
    OffsetReturned =>
        /\ NormalizedAxis(off_ret.x_px, off_ret.raw_x, image.W)
        /\ NormalizedAxis(off_ret.y_px, off_ret.raw_y, image.H)

C2_Witness ==
    /\ pc = "offset_done"
    /\ image.W % 2 = 0 /\ off_ret.raw_x = image.W \div 2
    /\ off_ret.x_px = image.W \div 2
    /\ off_ret.raw_y > image.H /\ off_ret.y_px < 0

(* C3: in the non-wrap modes with a resolved offset other than (0, 0),     *)
(* output pixel (r, c) is input pixel (r - y_px, c - x_px) where that lies *)
(* inside the image and the fill colour (black for transparent_black)      *)
(* elsewhere; for x_px > 0, y_px = 0 the columns [0, x_px) are fill and    *)
(* the columns [x_px, W) are the input columns [0, W - x_px).              *)
C3_NonWrapPaste ==
    (/\ OffsetReturned /\ edge_mode # "wrap"
     /\ ~(off_ret.x_px = 0 /\ off_ret.y_px = 0)) =>
        LET x == off_ret.x_px
            y == off_ret.y_px
            o == off_ret.out
        IN  /\ off_ret.status = "ok"
            /\ DOMAIN o.px = DOMAIN image.px
            /\ \A i \in DOMAIN image.px :
                  o.px[i] =
                      IF /\ 0 <= i[2] - y /\ i[2] - y < image.H
                         /\ 0 <= i[3] - x /\ i[3] - x < image.W
                      THEN image.px[<<i[1], i[2] - y, i[3] - x, i[4]>>]
                      ELSE FillOf(i[4])
            /\ (x > 0 /\ y = 0) =>
                  \A i \in DOMAIN image.px :
                      /\ i[3] < x => o.px[i] = FillOf(i[4])
                      /\ i[3] >= x => o.px[i] = image.px[<<i[1], i[2], i[3] - x, i[4]>>]

C3_Witness ==
    /\ pc = "offset_done" /\ edge_mode = "fill_color"
    /\ off_ret.x_px > 0 /\ off_ret.y_px = 0
    /\ off_ret.branch = "paste"
    /\ off_ret.out.px[<<0, 0, 0, 0>>] = fill_rgb[1]
    /\ off_ret.out.px[<<0, 0, off_ret.x_px, 0>>] = image.px[<<0, 0, 0, 0>>]

(* C10: in the non-wrap modes width_copy and height_copy are strictly      *)
(* positive for every H, W >= 1 and every requested offset, units and      *)
(* auto_half flags, so the fill-only return is never taken; a request of W *)
(* or more pixels is reduced modulo W.                                     *)
C10_GuardUnreachable ==
    (OffsetReturned /\ edge_mode # "wrap") =>
        /\ CopyLen(off_ret.x_px, image.W) > 0
        /\ CopyLen(off_ret.y_px, image.H) > 0
        /\ Abs(off_ret.x_px) <= image.W \div 2
        /\ Abs(off_ret.y_px) <= image.H \div 2
        /\ off_ret.branch \in {"identity", "paste"}
        /\ off_ret.branch = "paste" =>
              \E i \in DOMAIN image.px : off_ret.out.px[i] # FillOf(i[4])

C10_Witness ==
    /\ pc = "offset_done" /\ edge_mode # "wrap"
    /\ off_ret.raw_x >= image.W /\ Abs(off_ret.raw_y) >= image.H
    /\ off_ret.branch = "paste"
    /\ off_ret.x_px # 0

----------------------------------------------------------------------------
(* Properties of VR180StereoTools.apply, under SpecStereo *)

ApplyReturned == pc \in {"apply_done", "apply_other"}

Clamp01(v) == IF v < 0 THEN 0 ELSE IF v > One THEN One ELSE v

(* the width after even-width normalization, read from the arguments *)
NormW ==
    IF even_width_handling = "auto_crop_if_odd" /\ images.W % 2 = 1
    THEN images.W - 1 ELSE images.W

SameRows(o) == o.B = images.B /\ o.H = images.H /\ o.C = images.C

(* the statement of C4 as written: every mono call returns width 2m with   *)
(* both halves equal to the clamped input, m the width of the input        *)
C4_AsStated ==
    (ApplyReturned /\ mode = "mono_to_stereo_copy") =>
        /\ st_ret.status = "ok"
        /\ st_ret.out.W = 2 * images.W
        /\ \A i \in DOMAIN images.px :
              /\ st_ret.out.px[i] = Clamp01(images.px[i])
              /\ st_ret.out.px[<<i[1], i[2], i[3] + images.W, i[4]>>]
                    = Clamp01(images.px[i])

(* C4 (amended): mono_to_stereo_copy returns a frame of width 2m, m the    *)
(* width after even-width normalization, whose left and right halves equal *)
(* the clamped normalized input in every column outside the seam band of   *)
(* min(seam_feather, m) columns on each side of the seam; with             *)
(* seam_feather = 0 that is the whole of both halves.                      *)
C4_MonoHalves ==
    (ApplyReturned /\ mode = "mono_to_stereo_copy") =>
        LET m == NormW
            f == Min(seam_feather, m)
            o == st_ret.out
        IN  /\ st_ret.status = "ok"
            /\ o.W = 2 * m /\ SameRows(o)
            /\ \A i \in DOMAIN images.px :
                  /\ i[3] < m - f => o.px[i] = Clamp01(images.px[i])
                  /\ (i[3] < m /\ i[3] >= f) =>
                        o.px[<<i[1], i[2], i[3] + m, i[4]>>] = Clamp01(images.px[i])

C4_Witness ==
    /\ pc = "apply_done" /\ mode = "mono_to_stereo_copy"
    /\ seam_feather > 0 /\ seam_feather < NormW
    /\ images.W % 2 = 1 /\ even_width_handling = "auto_crop_if_odd"
    /\ st_ret.out.W = 2 * (images.W - 1)
    /\ \E i \in DOMAIN st_ret.out.px :
          /\ i[3] >= NormW
          /\ st_ret.out.px[i] # Clamp01(images.px[<<i[1], i[2], i[3] - NormW, i[4]>>])

(* C5: sbs_copy_half_to_stereo on an input whose normalized width W is     *)
(* even returns width W, and with seam_feather = 0 the two halves of the   *)
(* output are identical, both the half of the input named by source_half,  *)
(* clamped.                                                                *)
C5_CopyHalf ==
    (ApplyReturned /\ mode = "sbs_copy_half_to_stereo" /\ NormW % 2 = 0) =>
        LET half == NormW \div 2
            from == IF source_half = "left" THEN 0 ELSE half
            o == st_ret.out
        IN  /\ st_ret.status = "ok"
            /\ o.W = NormW /\ SameRows(o)
            /\ seam_feather = 0 =>
                  \A i \in DOMAIN o.px :
                      i[3] < half =>
                          /\ o.px[i] = o.px[<<i[1], i[2], i[3] + half, i[4]>>]
                          /\ o.px[i] = Clamp01(images.px[<<i[1], i[2], i[3] + from, i[4]>>])

C5_Witness ==
    /\ pc = "apply_done" /\ mode = "sbs_copy_half_to_stereo"
    /\ seam_feather = 0 /\ source_half = "right"
    /\ images.W % 2 = 1 /\ NormW >= 2
    /\ st_ret.status = "ok" /\ st_ret.out.W = NormW
    /\ \E i \in DOMAIN st_ret.out.px : st_ret.out.px[i] # Clamp01(images.px[i])

(* C6: sbs_extract_half and sbs_copy_half_to_stereo fail with the odd-     *)
(* width error, returning no output, exactly when the input width is odd   *)
(* and even_width_handling is skip; with auto_crop_if_odd they never do.   *)
C6_OddWidth ==
    (ApplyReturned /\ mode \in {"sbs_extract_half", "sbs_copy_half_to_stereo"}) =>
        /\ st_ret.status = "odd_width" <=>
              (images.W % 2 = 1 /\ even_width_handling = "skip")
        /\ st_ret.status = "odd_width" => st_ret.out = NoTensor
        /\ st_ret.status # "odd_width" => st_ret.status = "ok"
        /\ even_width_handling = "auto_crop_if_odd" => st_ret.status = "ok"

C6_Witness ==
    /\ pc = "apply_done" /\ mode = "sbs_extract_half"
    /\ images.W % 2 = 1 /\ images.W > 1 /\ even_width_handling = "skip"
    /\ st_ret.status = "odd_width"

(* the call with seam_feather = 0 and every other argument the same *)
Unfeathered ==
    ApplyFn(images, mode, source_half, output_layout, even_width_handling, 0).out

StereoProducing == mode \in {"sbs_copy_half_to_stereo", "mono_to_stereo_copy"}

(* C7: after a stereo-producing call with seam_feather > 0, with h the     *)
(* half width of the output and f = min(seam_feather, h), column h - f + i *)
(* equals column h + i for every i in [0, f), every row and every channel, *)
(* and no column outside [h - f, h + f) differs from the unfeathered one.  *)
C7_SeamBands ==
    (ApplyReturned /\ StereoProducing /\ st_ret.status = "ok" /\ seam_feather > 0) =>
        LET o == st_ret.out
            h == o.W \div 2
            f == Min(seam_feather, h)
        IN  /\ o.W = 2 * h
            /\ DOMAIN o.px = DOMAIN Unfeathered.px
            /\ \A i \in DOMAIN o.px :
                  /\ (i[3] >= h - f /\ i[3] < h) =>
                        o.px[i] = o.px[<<i[1], i[2], i[3] + f, i[4]>>]
                  /\ (i[3] < h - f \/ i[3] >= h + f) => o.px[i] = Unfeathered.px[i]

C7_Witness ==
    /\ pc = "apply_done" /\ StereoProducing /\ st_ret.status = "ok"
    /\ seam_feather >= 2 /\ st_ret.out.W > 2 * seam_feather
    /\ st_ret.out # Unfeathered
    /\ \E i \in DOMAIN st_ret.out.px :
          /\ i[3] = (st_ret.out.W \div 2) - 1
          /\ st_ret.out.px[i] # Unfeathered.px[i]
          /\ st_ret.out.px[i] = st_ret.out.px[<<i[1], i[2], i[3] + seam_feather, i[4]>>]

(* C8: two stereo-producing calls that differ only in output_layout return *)
(* equal outputs, or fail with the same error.                             *)
C8_LayoutIgnored ==
    (pc = "apply_other" /\ StereoProducing) => st_other = st_ret

C8_Witness ==
    /\ pc = "apply_other" /\ mode = "sbs_copy_half_to_stereo"
    /\ source_half = "right" /\ output_layout = "parallel"
    /\ st_ret.status = "ok" /\ st_other = st_ret
    /\ \E i \in DOMAIN st_ret.out.px : st_ret.out.px[i] # Clamp01(images.px[i])

(* C9: every element of a returned batch lies in [0,1], in every mode and  *)
(* for every argument, also when the input holds samples below 0 or above  *)
(* 1.                                                                      *)
C9_Clamped ==
    /\ (ApplyReturned /\ st_ret.status = "ok") =>
          \A i \in DOMAIN st_ret.out.px :
              st_ret.out.px[i] >= 0 /\ st_ret.out.px[i] <= One
    /\ (pc = "apply_other" /\ st_other.status = "ok") =>
          \A i \in DOMAIN st_other.out.px :
              st_other.out.px[i] >= 0 /\ st_other.out.px[i] <= One

C9_Witness ==
    /\ pc = "apply_done" /\ st_ret.status = "ok" /\ mode = "even_crop_only"
    /\ \E i \in DOMAIN st_ret.out.px : images.px[i] < 0 /\ st_ret.out.px[i] = 0
    /\ \E i \in DOMAIN st_ret.out.px : images.px[i] > One /\ st_ret.out.px[i] = One

====
